---------------------------- MODULE Spec2Model ----------------------------
(***************************************************************************)
(* A model of app.py, the Indian job market dashboard: the two field       *)
(* parsers (process_salary, process_experience), load_data, and one run of *)
(* the Streamlit script per user interaction (sidebar widgets, filter,     *)
(* empty-state stop, skills aggregations, search).                         *)
(*                                                                         *)
(* Text is a sequence of one-character strings.  A Python float is the     *)
(* exact rational [num, den] it denotes (den > 0); None and NaN results    *)
(* are the record None (den = 0).                                          *)
(***************************************************************************)
EXTENDS Integers, Sequences, FiniteSets, TLC

\* ------------------------------------------------------------------ bounds
\* longest text of a string cell handed to the parsers
MaxLen == 6

\* ------------------------------------------------------------- characters
DigitChars == <<"0", "1", "2", "3", "4", "5", "6", "7", "8", "9">>

\* \d of the pattern
IsDigit(c) == c \in {DigitChars[d] : d \in 1..10}

DigitVal(c) == (CHOOSE d \in 1..10 : DigitChars[d] = c) - 1

RECURSIVE Pow10(_)
Pow10(k) == IF k = 0 THEN 1 ELSE 10 * Pow10(k - 1)

\* the decimal digits of a natural number, as str(int) prints them
RECURSIVE IntDigits(_)
IntDigits(n) ==
  IF n < 10 THEN <<DigitChars[n + 1]>>
  ELSE IntDigits(n \div 10) \o <<DigitChars[(n % 10) + 1]>>

RECURSIVE Zeros(_)
Zeros(k) == IF k <= 0 THEN <<>> ELSE <<"0">> \o Zeros(k - 1)

\* ------------------------------------------------------------------ cells
\* A cell of the CSV as pandas hands it to apply(): a string, None, NaN, an
\* int m, or a float m * 10^e (m > 0, m not a multiple of 10).
StrCell(t)      == [kind |-> "str",   text |-> t,    m |-> 0, e |-> 0]
NoneCell        == [kind |-> "None",  text |-> <<>>, m |-> 0, e |-> 0]
NaNCell         == [kind |-> "nan",   text |-> <<>>, m |-> 0, e |-> 0]
IntCell(n)      == [kind |-> "int",   text |-> <<>>, m |-> n, e |-> 0]
FloatCell(n, x) == [kind |-> "float", text |-> <<>>, m |-> n, e |-> x]

\* repr of a positive float m * 10^e: scientific notation when the decimal
\* exponent is below -4 or at least 16, fixed notation otherwise
float_repr(n, x) ==
  LET ds  == IntDigits(n)
      k   == Len(ds)
      sci == x + k - 1
      mag == IF sci < 0 THEN 0 - sci ELSE sci
  IN  IF sci < -4 \/ sci >= 16
        THEN <<ds[1]>>
             \o (IF k > 1 THEN <<".">> \o SubSeq(ds, 2, k) ELSE <<>>)
             \o <<"e", IF sci < 0 THEN "-" ELSE "+">>
             \o (IF mag < 10 THEN <<"0">> ELSE <<>>) \o IntDigits(mag)
      ELSE IF x >= 0 THEN ds \o Zeros(x) \o <<".", "0">>
      ELSE IF k + x > 0
        THEN SubSeq(ds, 1, k + x) \o <<".">> \o SubSeq(ds, k + x + 1, k)
      ELSE <<"0", ".">> \o Zeros(0 - (k + x)) \o ds

\* str(cell), as process_salary and process_experience call it
str(cell) ==
  CASE cell.kind = "str"   -> cell.text
    [] cell.kind = "None"  -> <<"N", "o", "n", "e">>
    [] cell.kind = "nan"   -> <<"n", "a", "n">>
    [] cell.kind = "int"   -> IntDigits(cell.m)
    [] cell.kind = "float" -> float_repr(cell.m, cell.e)

\* ------------------------------------------------- re.findall and float()
\* last index of the run of digits that starts at i
RECURSIVE DigitsEnd(_, _)
DigitsEnd(s, i) ==
  IF i < Len(s) /\ IsDigit(s[i + 1]) THEN DigitsEnd(s, i + 1) ELSE i

\* end of the match of \d+(?:\.\d+)? that starts at the digit s[i]
MatchEnd(s, i) ==
  LET j == DigitsEnd(s, i)
  IN  IF j + 2 <= Len(s) /\ s[j + 1] = "." /\ IsDigit(s[j + 2])
        THEN DigitsEnd(s, j + 2)
        ELSE j

RECURSIVE Scan(_, _)
Scan(s, i) ==
  IF i > Len(s) THEN <<>>
  ELSE IF IsDigit(s[i])
    THEN <<SubSeq(s, i, MatchEnd(s, i))>> \o Scan(s, MatchEnd(s, i) + 1)
  ELSE Scan(s, i + 1)

\* re.findall(r'(\d+(?:\.\d+)?)', s): the non-overlapping matches, left to right
findall(s) == Scan(s, 1)

RECURSIVE DigitsInt(_)
DigitsInt(ds) ==
  IF ds = <<>> THEN 0
  ELSE 10 * DigitsInt(SubSeq(ds, 1, Len(ds) - 1)) + DigitVal(ds[Len(ds)])

\* float(token) of a matched token
float(tok) ==
  IF \E p \in 1..Len(tok) : tok[p] = "."
    THEN LET p == CHOOSE q \in 1..Len(tok) : tok[q] = "."
         IN  [num |-> DigitsInt(SubSeq(tok, 1, p - 1)) * Pow10(Len(tok) - p)
                      + DigitsInt(SubSeq(tok, p + 1, Len(tok))),
              den |-> Pow10(Len(tok) - p)]
    ELSE [num |-> DigitsInt(tok), den |-> 1]

None == [num |-> 0, den |-> 0]

\* (a + b) / 2
Mean2(a, b) == [num |-> a.num * b.den + b.num * a.den, den |-> 2 * a.den * b.den]

\* equality of two float results (absent equals only absent)
SameFloat(a, b) ==
  IF a.den = 0 \/ b.den = 0 THEN a.den = b.den
  ELSE a.num * b.den = b.num * a.den

\* ---------------------------------------------------------- field parsers
\* not the code: process_salary were it to order the pair
process_salary_swapped(salary_range) ==
  LET numbers == findall(str(salary_range))
  IN  IF Len(numbers) >= 2
        THEN LET a == float(numbers[1])
                 b == float(numbers[2])
                 lo == IF a.num * b.den <= b.num * a.den THEN a ELSE b
                 hi == IF a.num * b.den <= b.num * a.den THEN b ELSE a
             IN  [min_salary |-> lo, max_salary |-> hi, avg_salary |-> Mean2(a, b)]
        ELSE [min_salary |-> None, max_salary |-> None, avg_salary |-> None]

\* lines 9-17
process_salary(salary_range) ==
  LET numbers == findall(str(salary_range))
  IN  IF Len(numbers) >= 2
        THEN LET min_salary == float(numbers[1])
                 max_salary == float(numbers[2])
             IN  [min_salary |-> min_salary,
                  max_salary |-> max_salary,
                  avg_salary |-> Mean2(min_salary, max_salary)]
        ELSE [min_salary |-> None, max_salary |-> None, avg_salary |-> None]

\* not the code: the mean of the first and the last number
process_experience_last(exp) ==
  LET numbers == findall(str(exp))
  IN  IF Len(numbers) >= 2
        THEN Mean2(float(numbers[1]), float(numbers[Len(numbers)]))
      ELSE IF Len(numbers) = 1 THEN float(numbers[1])
      ELSE None

\* not the code: without the single-number branch
process_experience_range_only(exp) ==
  LET numbers == findall(str(exp))
  IN  IF Len(numbers) >= 2
        THEN Mean2(float(numbers[1]), float(numbers[2]))
      ELSE None

\* lines 20-26
process_experience(exp) ==
  LET numbers == findall(str(exp))
  IN  IF Len(numbers) >= 2
        THEN Mean2(float(numbers[1]), float(numbers[2]))
      ELSE IF Len(numbers) = 1 THEN float(numbers[1])
      ELSE None


\* ------------------------------------------------------------ text helpers
\* the characters the model's texts use, in code point order
CodePoints ==
  <<" ", "(", "+", ",", "-", ".",
    "0", "1", "2", "3", "4", "5", "6", "7", "8", "9",
    "A", "B", "C", "D", "E", "F", "G", "H", "I", "J", "K", "L", "M",
    "N", "O", "P", "Q", "R", "S", "T", "U", "V", "W", "X", "Y", "Z",
    "a", "b", "c", "d", "e", "f", "g", "h", "i", "j", "k", "l", "m",
    "n", "o", "p", "q", "r", "s", "t", "u", "v", "w", "x", "y", "z">>

\* rank of a character in code point order
ord(c) == CHOOSE i \in 1..Len(CodePoints) : CodePoints[i] = c

\* str.lower of one character
lower(c) ==
  IF ord(c) >= ord("A") /\ ord(c) <= ord("Z") THEN CodePoints[ord(c) + 26] ELSE c

\* a < b for Python strings
RECURSIVE StrLess(_, _)
StrLess(a, b) ==
  IF b = <<>> THEN FALSE
  ELSE IF a = <<>> THEN TRUE
  ELSE IF a[1] = b[1] THEN StrLess(Tail(a), Tail(b))
  ELSE ord(a[1]) < ord(b[1])

\* sorted(S) for a set of strings
RECURSIVE sorted(_)
sorted(S) ==
  IF S = {} THEN <<>>
  ELSE LET least == CHOOSE x \in S : \A y \in S \ {x} : StrLess(x, y)
       IN  <<least>> \o sorted(S \ {least})

\* seq[:n]
Take(seq, n) == SubSeq(seq, 1, IF Len(seq) < n THEN Len(seq) ELSE n)

Range(seq) == {seq[i] : i \in 1..Len(seq)}

\* text.split(','): the pieces between commas, empty pieces kept
RECURSIVE split(_)
split(t) ==
  IF \E p \in 1..Len(t) : t[p] = ","
    THEN LET p == CHOOSE q \in 1..Len(t) :
                    t[q] = "," /\ \A r \in 1..(q - 1) : t[r] # ","
         IN  <<SubSeq(t, 1, p - 1)>> \o split(SubSeq(t, p + 1, Len(t)))
    ELSE <<t>>

\* skill.strip()
RECURSIVE strip(_)
strip(t) ==
  IF t = <<>> THEN t
  ELSE IF t[1] = " " THEN strip(Tail(t))
  ELSE IF t[Len(t)] = " " THEN strip(SubSeq(t, 1, Len(t) - 1))
  ELSE t

\* ------------------------------------------------------------ the dataset
\* A row of india_job_market_dataset.csv as read_csv gives it.  The columns
\* that hold no missing value in these tables are kept as their text; Company
\* Name, Salary Range and Experience Required may be missing and are cells.
\* Posted Date is the day number of its calendar date.  Every table has a
\* row whose salary parses, so avg_salary is a float column.  The columns
\* the modelled steps do not read (Job ID, Application Deadline,
\* Remote/Onsite, Education Requirement, Number of Applicants) are left out.
RawRow(title, company, location, size, type, salary, experience, skills, day) ==
  [Job_Title |-> title, Company_Name |-> company, Job_Location |-> location,
   Company_Size |-> size, Job_Type |-> type, Salary_Range |-> salary,
   Experience_Required |-> experience, Skills_Required |-> skills,
   Posted |-> day]

Goa   == <<"G", "o", "a">>
Pune  == <<"P", "u", "n", "e">>
Agra  == <<"A", "g", "r", "a">>
Kochi == <<"K", "o", "c", "h", "i">>
Surat == <<"S", "u", "r", "a", "t">>
Vizag == <<"V", "i", "z", "a", "g">>
Small == <<"S", "m", "a", "l", "l">>
Large == <<"L", "a", "r", "g", "e">>
Full  == <<"F", "u", "l", "l">>
Part  == <<"P", "a", "r", "t">>
Dev   == <<"D", "e", "v">>
QA    == <<"Q", "A">>
Acme  == <<"A", "c", "m", "e">>
Zed   == <<"Z", "e", "d">>

\* the rows the small tables are made of
RowPool ==
  { RawRow(Dev, StrCell(Acme), Goa, Small, Full,
           StrCell(<<"6", "-", "1", "0", " ", "L", "P", "A">>),
           StrCell(<<"2", "-", "5", " ", "y", "r", "s">>),
           <<"S", "Q", "L", ",", " ", "G", "o">>, 1),
    RawRow(QA, NaNCell, Pune, Large, Part,
           StrCell(<<"3", ".", "5", "-", "5">>),
           StrCell(<<"3", " ", "y", "r", "s">>),
           <<"C", "+", "+">>, 2),
    RawRow(Dev, StrCell(Zed), Goa, Large, Full,
           StrCell(<<"1", "0", "-", "6">>),
           StrCell(<<"1", "+">>),
           <<"G", "o", " ", ",", "S", "Q", "L">>, 2) }

GoSQL == <<"G", "o", ",", " ", "S", "Q", "L">>

\* a table of six postings in six cities
Sample ==
  << RawRow(Dev, StrCell(Acme), Agra, Large, Full,
            StrCell(<<"6", "-", "1", "0">>), StrCell(<<"2">>), GoSQL, 1),
     RawRow(Dev, StrCell(Acme), Goa, Large, Full,
            StrCell(<<"4", "-", "8">>), StrCell(<<"2">>), GoSQL, 1),
     RawRow(QA, StrCell(Zed), Kochi, Large, Full,
            NaNCell, StrCell(<<"2">>), GoSQL, 1),
     RawRow(QA, StrCell(Zed), Pune, Large, Full,
            StrCell(<<"1", "0", "-", "1", "4">>), StrCell(<<"2">>), GoSQL, 2),
     RawRow(Dev, StrCell(Zed), Surat, Large, Full,
            StrCell(<<"2", "-", "4">>), StrCell(<<"2">>), GoSQL, 2),
     RawRow(Dev, StrCell(Acme), Vizag, Large, Full,
            StrCell(<<"8", "-", "1", "2">>), StrCell(<<"2">>),
            <<"S", "Q", "L", ",", "G", "o">>, 2) >>

\* most rows of a small table
MaxRows == 3

\* the contents the CSV file can have
Tables == UNION {[1..n -> RowPool] : n \in 1..MaxRows} \cup {Sample}

\* ----------------------------------------------------------------- loading
\* load_data: the derived columns added to each row; index is the RangeIndex
load_data(src) ==
  [i \in 1..Len(src) |->
     LET r == src[i]
         salary_info == process_salary(r.Salary_Range)
     IN  [index |-> i - 1,
          Job_Title |-> r.Job_Title, Company_Name |-> r.Company_Name,
          Job_Location |-> r.Job_Location, Company_Size |-> r.Company_Size,
          Job_Type |-> r.Job_Type, Salary_Range |-> r.Salary_Range,
          Experience_Required |-> r.Experience_Required,
          Skills_Required |-> r.Skills_Required,
          min_salary |-> salary_info.min_salary,
          max_salary |-> salary_info.max_salary,
          avg_salary |-> salary_info.avg_salary,
          Experience_Years |-> process_experience(r.Experience_Required),
          Posted_Date |-> r.Posted,
          Skills_List |-> split(r.Skills_Required)]]

\* df[column].unique()
unique(d, column) == {d[i][column] : i \in 1..Len(d)}

\* ----------------------------------------------------------------- sidebar
\* how many locations the multiselect preselects
DefaultLocations == 5

\* not the code: the default without its [:5]
default_locations_all(d) == Range(sorted(unique(d, "Job_Location")))

\* default=sorted(df['Job Location'].unique())[:5]
default_locations(d) ==
  Range(Take(sorted(unique(d, "Job_Location")), DefaultLocations))

Min(S) == CHOOSE x \in S : \A y \in S : x <= y
Max(S) == CHOOSE x \in S : \A y \in S : x >= y

\* value=(df['Posted_Date'].min(), df['Posted_Date'].max())
default_date_range(d) ==
  <<Min(unique(d, "Posted_Date")), Max(unique(d, "Posted_Date"))>>

\* what the date input can hold: one date (the user has picked the start of
\* the range and not yet its end), or a start and an end
DateInputs(d) ==
  LET days == Min(unique(d, "Posted_Date"))..Max(unique(d, "Posted_Date"))
  IN  {<<a>> : a \in days} \cup {p \in days \X days : p[1] <= p[2]}

\* ------------------------------------------------------------------ filter
\* not the code: the mask with an exclusive upper date
FilterMask_exclusive_upper(d, dr, locations, sizes, types) ==
  [i \in 1..Len(d) |->
     /\ d[i].Posted_Date >= dr[1]
     /\ d[i].Posted_Date < dr[2]
     /\ d[i].Job_Location \in locations
     /\ d[i].Company_Size \in sizes
     /\ d[i].Job_Type \in types]

\* the mask of lines 100-106
FilterMask(d, dr, locations, sizes, types) ==
  [i \in 1..Len(d) |->
     /\ d[i].Posted_Date >= dr[1]
     /\ d[i].Posted_Date <= dr[2]
     /\ d[i].Job_Location \in locations
     /\ d[i].Company_Size \in sizes
     /\ d[i].Job_Type \in types]

\* d[m]: the rows whose mask entry is true, in order
RECURSIVE Select(_, _)
Select(d, m) ==
  IF d = <<>> THEN <<>>
  ELSE (IF m[1] THEN <<d[1]>> ELSE <<>>) \o Select(Tail(d), Tail(m))

\* ---------------------------------------------------------- skills charts
\* [skill.strip() for skills in filtered_df['Skills_List'] for skill in skills]
RECURSIVE AllSkills(_)
AllSkills(fd) ==
  IF fd = <<>> THEN <<>>
  ELSE [j \in 1..Len(fd[1].Skills_List) |-> strip(fd[1].Skills_List[j])]
         \o AllSkills(Tail(fd))

Occurrences(seq, x) == Cardinality({i \in 1..Len(seq) : seq[i] = x})

\* the orders a sort may leave the elements of S in
Orderings(S) ==
  {f \in [1..Cardinality(S) -> S] : \A i, j \in DOMAIN f : i # j => f[i] # f[j]}

\* value_counts(): one row per distinct skill, by descending count; the
\* order of equal counts is whatever the sort leaves
ValueCounts(skills) ==
  {[i \in DOMAIN f |-> [Skill |-> f[i], Count |-> Occurrences(skills, f[i])]] :
     f \in {g \in Orderings(Range(skills)) :
              \A i \in 1..(Len(g) - 1) :
                Occurrences(skills, g[i]) >= Occurrences(skills, g[i + 1])}}

\* filtered_df.explode('Skills_List'): one row per element of the list
RECURSIVE Explode(_)
Explode(fd) ==
  IF fd = <<>> THEN <<>>
  ELSE [j \in 1..Len(fd[1].Skills_List) |->
          [Skills_List |-> fd[1].Skills_List[j], avg_salary |-> fd[1].avg_salary]]
         \o Explode(Tail(fd))

AddFloat(a, b) == [num |-> a.num * b.den + b.num * a.den, den |-> a.den * b.den]

\* sum of the present values of a sequence of floats
RECURSIVE SumPresent(_)
SumPresent(xs) ==
  IF xs = <<>> THEN [num |-> 0, den |-> 1]
  ELSE IF xs[1].den = 0 THEN SumPresent(Tail(xs))
  ELSE AddFloat(xs[1], SumPresent(Tail(xs)))

\* round(2), in hundredths: to nearest, halves to even
Round2(x) ==
  LET q == (x.num * 100) \div x.den
      r == (x.num * 100) % x.den
  IN  IF 2 * r > x.den \/ (2 * r = x.den /\ q % 2 = 1) THEN q + 1 ELSE q

\* least count of a skill in the highest paying skills
MinSupport == 5

\* rows of the charts
TopN == 10

\* groupby('Skills_List')['avg_salary'].agg(['mean', 'count']).round(2) for
\* one key: 'count' counts the rows of the group whose avg_salary is present
\* and 'mean' (in hundredths) is over those rows; the mean of a group with
\* none is NaN, held as 0 here, and never passes the count threshold
Group(ex, key) ==
  LET rows == {i \in 1..Len(ex) : ex[i].Skills_List = key}
      vals == [i \in 1..Len(ex) |-> IF i \in rows THEN ex[i].avg_salary ELSE None]
      k    == Cardinality({i \in rows : ex[i].avg_salary.den > 0})
      sum  == SumPresent(vals)
  IN  [Skills_List |-> key,
       mean  |-> IF k = 0 THEN 0
                 ELSE Round2([num |-> sum.num, den |-> sum.den * k]),
       count |-> k]

\* [count >= 5].sort_values('mean', ascending=False); the order of equal
\* means is whatever the sort leaves
SkillsSalaryAvg(fd) ==
  LET ex   == Explode(fd)
      keys == {ex[i].Skills_List : i \in 1..Len(ex)}
      kept == {Group(ex, key) : key \in {k \in keys : Group(ex, k).count >= MinSupport}}
  IN  {f \in Orderings(kept) :
         \A i \in 1..(Len(f) - 1) : f[i].mean >= f[i + 1].mean}

\* ------------------------------------------------------------------ search
\* the search term compiled as a regular expression.  The terms are made of
\* letters, '.', '+' and '(': a letter or '.' is an atom, '+' repeats the
\* atom before it, and a '(' (never closed), a '+' with nothing to repeat or
\* a second '+' is a re.error.
RECURSIVE Compile(_)
Compile(t) ==
  IF t = <<>> THEN [ok |-> TRUE, atoms |-> <<>>]
  ELSE IF t[1] \in {"(", "+"} THEN [ok |-> FALSE, atoms |-> <<>>]
  ELSE LET plus == Len(t) >= 2 /\ t[2] = "+"
           rest == Compile(SubSeq(t, IF plus THEN 3 ELSE 2, Len(t)))
       IN  [ok |-> rest.ok,
            atoms |-> <<[ch |-> t[1], plus |-> plus]>> \o rest.atoms]

\* one atom against one character, under re.IGNORECASE
AtomMatches(atom, c) == atom.ch = "." \/ lower(atom.ch) = lower(c)

\* the atoms from the k-th on match s from position i
RECURSIVE MatchAt(_, _, _, _)
MatchAt(atoms, k, s, i) ==
  IF k > Len(atoms) THEN TRUE
  ELSE IF i > Len(s) THEN FALSE
  ELSE IF ~AtomMatches(atoms[k], s[i]) THEN FALSE
  ELSE \/ MatchAt(atoms, k + 1, s, i + 1)
       \/ atoms[k].plus /\ MatchAt(atoms, k, s, i + 1)

\* re.search(term, s, re.IGNORECASE) finds a match
re_search(atoms, s) == \E i \in 1..(Len(s) + 1) : MatchAt(atoms, 1, s, i)

\* the columns of search_cols as cells
SearchCells(row) ==
  <<StrCell(row.Job_Title), row.Company_Name,
    StrCell(row.Job_Location), StrCell(row.Skills_Required)>>

\* the .str accessor of a column that holds no string (here: Company Name
\* missing in every row, which read_csv makes a float column) raises
\* AttributeError
StrAccessorFails(d) == \A i \in 1..Len(d) : d[i].Company_Name.kind # "str"

\* the row's entry in search_mask: str.contains(..., case=False, na=False)
\* of any column
search_mask(atoms, row) ==
  \E c \in 1..4 :
    SearchCells(row)[c].kind = "str" /\ re_search(atoms, SearchCells(row)[c].text)

\* ------------------------------------------------------------------ state
VARIABLES
  arg,               \* the cell handed to a field parser
  called,            \* which parser has returned: "none" before the call
  ret_salary,        \* the Series process_salary returned
  ret_experience,    \* the value process_experience returned
  pc,                \* where the run of the script is
  df,                \* the table load_data returned and caches; <<>> before
  first_run,         \* no widget has been touched yet
  date_range,        \* st.date_input: a tuple of 1 or 2 days; <<>> before
  selected_locations, selected_sizes, selected_types,  \* st.multiselect
  mask,              \* the filter's mask; <<>> until the filter has run
  filtered_df,
  skills_df,         \* the top skills, by count
  skills_salary_avg, \* the highest paying skills, by mean
  search_term,       \* st.text_input
  search_results,
  rendered           \* what the run has put on the page, in order

parseVars == <<arg, called, ret_salary, ret_experience>>

widgetVars == <<date_range, selected_locations, selected_sizes, selected_types>>

chartVars == <<skills_df, skills_salary_avg>>

dashVars ==
  <<pc, df, first_run, date_range, selected_locations, selected_sizes,
    selected_types, mask, filtered_df, skills_df, skills_salary_avg,
    search_term, search_results, rendered>>

vars == <<parseVars, dashVars>>

\* ------------------------------------------------------- parser inputs
TextChars == {"1", "5", ".", "-", " "}

Texts == UNION {[1..n -> TextChars] : n \in 0..MaxLen}

Cells ==
  {StrCell(t) : t \in Texts}
    \cup {NoneCell, NaNCell}
    \cup {IntCell(n) : n \in {0, 3, 12}}
    \cup {FloatCell(n, x) : n \in {1, 3, 65}, x \in {-6, -1, 0, 16}}

NoSalary == [min_salary |-> None, max_salary |-> None, avg_salary |-> None]

\* the script before its first line has run
Unstarted ==
  /\ pc = "load"
  /\ df = <<>>
  /\ first_run = TRUE
  /\ date_range = <<>>
  /\ selected_locations = {}
  /\ selected_sizes = {}
  /\ selected_types = {}
  /\ mask = <<>>
  /\ filtered_df = <<>>
  /\ skills_df = <<>>
  /\ skills_salary_avg = <<>>
  /\ search_term = <<>>
  /\ search_results = <<>>
  /\ rendered = <<>>

\* no parser call under way
NotCalled ==
  /\ arg = NoneCell
  /\ called = "none"
  /\ ret_salary = NoSalary
  /\ ret_experience = None

InitParse ==
  /\ arg \in Cells
  /\ called = "none"
  /\ ret_salary = NoSalary
  /\ ret_experience = None
  /\ Unstarted

CallProcessSalary ==
  /\ called = "none"
  /\ ret_salary' = process_salary(arg)
  /\ called' = "process_salary"
  /\ UNCHANGED <<arg, ret_experience, dashVars>>

CallProcessExperience ==
  /\ called = "none"
  /\ ret_experience' = process_experience(arg)
  /\ called' = "process_experience"
  /\ UNCHANGED <<arg, ret_salary, dashVars>>

NextParse == CallProcessSalary \/ CallProcessExperience

SpecParse == InitParse /\ [][NextParse]_vars


\* ------------------------------------------------------ a run of the script
\* what the user can type in the search box
SearchTerms ==
  { <<>>, <<"g", "o">>, <<"G", "O">>, <<".">>, <<"c", "+">>, <<"(">> }

Init == NotCalled /\ Unstarted

\* lines 53-54: load_data() reads the file
LoadData ==
  /\ pc = "load"
  /\ \E src \in Tables : df' = load_data(src)
  /\ pc' = "sidebar"
  /\ UNCHANGED <<first_run, widgetVars, mask, filtered_df, chartVars,
                 search_term, search_results, rendered, parseVars>>

\* lines 55-57: load_data() raises (no file): st.error, st.stop
LoadFails ==
  /\ pc = "load"
  /\ rendered' = Append(rendered, "error")
  /\ pc' = "stopped"
  /\ UNCHANGED <<df, first_run, widgetVars, mask, filtered_df, chartVars,
                 search_term, search_results, parseVars>>

\* lines 68-97: the widgets return their defaults on the first run and what
\* the user has set them to afterwards
Sidebar ==
  /\ pc = "sidebar"
  /\ IF first_run
       THEN /\ date_range' = default_date_range(df)
            /\ selected_locations' = default_locations(df)
            /\ selected_sizes' = Range(sorted(unique(df, "Company_Size")))
            /\ selected_types' = Range(sorted(unique(df, "Job_Type")))
       ELSE /\ date_range' \in DateInputs(df)
            /\ selected_locations' \in SUBSET unique(df, "Job_Location")
            /\ selected_sizes' \in SUBSET unique(df, "Company_Size")
            /\ selected_types' \in SUBSET unique(df, "Job_Type")
  /\ pc' = "filter"
  /\ UNCHANGED <<df, first_run, mask, filtered_df, chartVars,
                 search_term, search_results, rendered, parseVars>>

\* not the code: the filter step without the empty-view stop
ApplyFilters_no_stop ==
  /\ pc = "filter"
  /\ IF Len(date_range) < 2
       THEN /\ pc' = "error"
            /\ rendered' = Append(rendered, "exception")
            /\ UNCHANGED <<mask, filtered_df>>
       ELSE /\ mask' = FilterMask(df, date_range, selected_locations,
                                  selected_sizes, selected_types)
            /\ filtered_df' = Select(df, mask')
            /\ pc' = "metrics"
            /\ UNCHANGED rendered
  /\ UNCHANGED <<df, first_run, widgetVars, chartVars,
                 search_term, search_results, parseVars>>

\* lines 100-111: date_range[1] of a shorter tuple is an IndexError; an empty
\* view is a warning and st.stop()
ApplyFilters ==
  /\ pc = "filter"
  /\ IF Len(date_range) < 2
       THEN /\ pc' = "error"
            /\ rendered' = Append(rendered, "exception")
            /\ UNCHANGED <<mask, filtered_df>>
       ELSE /\ mask' = FilterMask(df, date_range, selected_locations,
                                  selected_sizes, selected_types)
            /\ filtered_df' = Select(df, mask')
            /\ IF filtered_df' = <<>>
                 THEN /\ rendered' = Append(rendered, "warning")
                      /\ pc' = "stopped"
                 ELSE /\ pc' = "metrics"
                      /\ UNCHANGED rendered
  /\ UNCHANGED <<df, first_run, widgetVars, chartVars,
                 search_term, search_results, parseVars>>

\* lines 113-185: the key metrics and the salary charts
KeyMetrics ==
  /\ pc = "metrics"
  /\ rendered' = Append(rendered, "metrics")
  /\ pc' = "skills"
  /\ UNCHANGED <<df, first_run, widgetVars, mask, filtered_df, chartVars,
                 search_term, search_results, parseVars>>

\* lines 187-299: the skills charts (the company and trend charts after them
\* only draw)
SkillsCharts ==
  /\ pc = "skills"
  /\ skills_df' \in ValueCounts(AllSkills(filtered_df))
  /\ skills_salary_avg' \in SkillsSalaryAvg(filtered_df)
  /\ rendered' = Append(rendered, "charts")
  /\ pc' = "search"
  /\ UNCHANGED <<df, first_run, widgetVars, mask, filtered_df,
                 search_term, search_results, parseVars>>

\* lines 301-343: the search box, the results table and the download button
JobSearch ==
  /\ pc = "search"
  /\ search_term' \in (IF first_run THEN {<<>>} ELSE SearchTerms)
  /\ IF search_term' = <<>>
       THEN /\ search_results' = filtered_df
            /\ rendered' = rendered \o <<"results", "download">>
            /\ pc' = "done"
       ELSE IF ~Compile(search_term').ok \/ StrAccessorFails(df)
         THEN /\ pc' = "error"
              /\ rendered' = Append(rendered, "exception")
              /\ UNCHANGED search_results
         ELSE /\ search_results' =
                   Select(filtered_df,
                          [i \in 1..Len(filtered_df) |->
                             search_mask(Compile(search_term').atoms,
                                         filtered_df[i])])
              /\ rendered' = rendered \o <<"results", "download">>
              /\ pc' = "done"
  /\ UNCHANGED <<df, first_run, widgetVars, mask, filtered_df, chartVars,
                 parseVars>>

\* the user touches a widget: the script runs again from the top, with the
\* table load_data cached
Rerun ==
  /\ pc \in {"done", "stopped", "error"}
  /\ pc' = IF df = <<>> THEN "load" ELSE "sidebar"
  /\ first_run' = IF df = <<>> THEN first_run ELSE FALSE
  /\ date_range' = <<>>
  /\ selected_locations' = {}
  /\ selected_sizes' = {}
  /\ selected_types' = {}
  /\ mask' = <<>>
  /\ filtered_df' = <<>>
  /\ skills_df' = <<>>
  /\ skills_salary_avg' = <<>>
  /\ search_term' = <<>>
  /\ search_results' = <<>>
  /\ rendered' = <<>>
  /\ UNCHANGED <<df, parseVars>>

Next ==
  \/ LoadData
  \/ LoadFails
  \/ Sidebar
  \/ ApplyFilters
  \/ KeyMetrics
  \/ SkillsCharts
  \/ JobSearch
  \/ Rerun

Spec == Init /\ [][Next]_vars

\* --------------------------------------- the numeric tokens, by definition
\* t is digits, or digits "." digits
IsNumber(t) ==
  /\ Len(t) >= 1
  /\ \/ \A p \in 1..Len(t) : IsDigit(t[p])
     \/ \E d \in 2..(Len(t) - 1) :
          /\ t[d] = "."
          /\ \A p \in (1..Len(t)) \ {d} : IsDigit(t[p])

\* for each digit, the longest number that starts there
LongestNumbers(s) ==
  {<<i, CHOOSE j \in i..Len(s) :
          /\ IsNumber(SubSeq(s, i, j))
          /\ \A k \in (j + 1)..Len(s) : ~IsNumber(SubSeq(s, i, k))>> :
     i \in {p \in 1..Len(s) : IsDigit(s[p])}}

\* the tokens: a longest number is a token iff it does not start inside an
\* earlier token
TokenSpans(s) ==
  LET L == LongestNumbers(s)
  IN  CHOOSE T \in SUBSET L :
        \A c \in L : c \in T <=> ~\E t \in T : t[1] < c[1] /\ c[1] <= t[2]

\* the texts of the tokens, from the left
Tokens(s) ==
  LET T == TokenSpans(s)
  IN  [k \in 1..Cardinality(T) |->
         LET sp == CHOOSE t \in T : Cardinality({u \in T : u[1] < t[1]}) = k - 1
         IN  SubSeq(s, sp[1], sp[2])]

\* x = (a + b) / 2
IsMeanOf(x, a, b) ==
  /\ x.den > 0
  /\ 2 * x.num * a.den * b.den = (a.num * b.den + b.num * a.den) * x.den

\* C1: for every salary text, fewer than 2 numeric tokens give min, max and
\* avg all absent; otherwise min is the first token, max the second in
\* encountered order (not sorted), later tokens are ignored and
\* avg = (min + max) / 2.
C1_ProcessSalary ==
  (called = "process_salary" /\ arg.kind = "str") =>
    LET tokens == Tokens(arg.text)
    IN  IF Len(tokens) < 2
          THEN ret_salary = NoSalary
          ELSE /\ ret_salary.min_salary = float(tokens[1])
               /\ ret_salary.max_salary = float(tokens[2])
               /\ IsMeanOf(ret_salary.avg_salary,
                           ret_salary.min_salary, ret_salary.max_salary)

\* three tokens, the first larger than the second
C1_Witness ==
  /\ called = "process_salary"
  /\ arg = StrCell(<<"5", "-", "1", "-", "5">>)
  /\ ret_salary.min_salary = [num |-> 5, den |-> 1]
  /\ ret_salary.max_salary = [num |-> 1, den |-> 1]
  /\ SameFloat(ret_salary.avg_salary, [num |-> 3, den |-> 1])

\* C2: for every experience text, no numeric token gives absent, one token
\* gives its value, two or more give the mean of the first two.
C2_ProcessExperience ==
  (called = "process_experience" /\ arg.kind = "str") =>
    LET tokens == Tokens(arg.text)
    IN  CASE Len(tokens) = 0 -> ret_experience = None
          [] Len(tokens) = 1 -> ret_experience = float(tokens[1])
          [] OTHER -> IsMeanOf(ret_experience, float(tokens[1]), float(tokens[2]))

\* three tokens: the third does not count
C2_Witness ==
  /\ called = "process_experience"
  /\ arg = StrCell(<<"1", "-", "5", "-", "1">>)
  /\ SameFloat(ret_experience, [num |-> 3, den |-> 1])

AllAbsent ==
  /\ called = "process_salary" => ret_salary = NoSalary
  /\ called = "process_experience" => ret_experience = None

\* C3 as stated: every missing, empty or non-string cell (a bare number
\* included) gives the all-absent result from both parsers.
C3_NonStringAllAbsent ==
  (called # "none" /\ (arg.kind # "str" \/ arg.text = <<>>)) => AllAbsent

\* C3 amended: a missing (None, NaN) or empty cell gives the all-absent
\* result from both parsers; a bare number is parsed through its str() text:
\* an int cell n gives no salary and experience n, a float cell gives a
\* present experience.
C3_MissingAbsentNumberParsed ==
  /\ (called # "none" /\ (arg.kind \in {"None", "nan"} \/ arg = StrCell(<<>>)))
       => AllAbsent
  /\ (called = "process_salary" /\ arg.kind = "int") => ret_salary = NoSalary
  /\ (called = "process_experience" /\ arg.kind = "int")
       => ret_experience = [num |-> arg.m, den |-> 1]
  /\ (called = "process_experience" /\ arg.kind = "float")
       => ret_experience.den > 0

\* the bare number 3 read as an experience
C3_Witness ==
  /\ called = "process_experience"
  /\ arg = IntCell(3)
  /\ ret_experience = [num |-> 3, den |-> 1]


\* --------------------------------------------------------- the dashboard
\* the filter has run in this run of the script
Filtered == mask # <<>>

\* the rows (by position in df) that meet the four criteria
Included ==
  {i \in 1..Len(df) :
     /\ date_range[1] <= df[i].Posted_Date
     /\ df[i].Posted_Date <= date_range[2]
     /\ df[i].Job_Location \in selected_locations
     /\ df[i].Company_Size \in selected_sizes
     /\ df[i].Job_Type \in selected_types}

\* C4: the filtered view is exactly the rows whose posted date is within
\* [date_lower, date_upper] inclusive and whose location, company size and
\* job type are in the selected sets, in their original order; it is never
\* larger than the table, and an empty selected set gives no row.
C4_FilteredView ==
  Filtered =>
    /\ Len(filtered_df) = Cardinality(Included)
    /\ \A k \in 1..Len(filtered_df) :
         /\ filtered_df[k].index + 1 \in Included
         /\ filtered_df[k] = df[filtered_df[k].index + 1]
    /\ \A k \in 1..(Len(filtered_df) - 1) :
         filtered_df[k].index < filtered_df[k + 1].index
    /\ Len(filtered_df) <= Len(df)
    /\ ({} \in {selected_locations, selected_sizes, selected_types}
          => filtered_df = <<>>)

\* the six-city table filtered to day 2 and two cities: one row goes by its
\* date, one by its city
C4_Witness ==
  /\ Filtered
  /\ Len(df) = 6
  /\ date_range = <<2, 2>>
  /\ selected_locations = {Pune, Vizag}
  /\ Len(filtered_df) = 2
  /\ filtered_df[1].Job_Location = Pune
  /\ filtered_df[2].Job_Location = Vizag

\* C5: a run whose filtered view is empty emits the empty-state warning and
\* stops: nothing downstream (metrics, charts, search, download) is rendered
\* in that run, and the next step is a new run.
C5_EmptyViewStops ==
  /\ [](Filtered /\ filtered_df = <<>>
          => pc = "stopped" /\ rendered = <<"warning">>)
  /\ [][(pc = "stopped" /\ Filtered)
          => (pc' = "sidebar" /\ rendered' = <<>> /\ ~Filtered')]_vars

C5_Witness ==
  /\ Filtered
  /\ filtered_df = <<>>
  /\ pc = "stopped"
  /\ rendered = <<"warning">>
  /\ selected_locations # {}

\* C6: whatever the widgets hold after a successful load (a date input with
\* one date, any selected sets, any search term), the filter step and the
\* search step give a view and never end in an error.
C6_NeverAnError == pc # "error"

\* C7: every row's Skills_List is the skills text split on commas with
\* each element trimmed, and the two skills charts key on the same names.
C7_SkillsTrimmed ==
  /\ \A i \in 1..Len(df) :
       /\ Len(df[i].Skills_List) = Len(split(df[i].Skills_Required))
       /\ \A j \in 1..Len(df[i].Skills_List) :
            /\ df[i].Skills_List[j] = strip(split(df[i].Skills_Required)[j])
            /\ df[i].Skills_List[j] = <<>>
                 \/ (Head(df[i].Skills_List[j]) # " "
                     /\ df[i].Skills_List[j][Len(df[i].Skills_List[j])] # " ")
  /\ \A k \in 1..Len(skills_salary_avg) :
       \E n \in 1..Len(skills_df) :
         skills_df[n].Skill = skills_salary_avg[k].Skills_List

\* the charts of this run have been computed
Charted == skills_df # <<>>

\* occurrences of a skill in the flattened Skills_List of the filtered view
SkillOccurrences(key) ==
  LET ex == Explode(filtered_df)
  IN  Cardinality({i \in 1..Len(ex) : ex[i].Skills_List = key})

\* C8: the highest paying skills are at most 10, by descending mean, and a
\* skill is among the candidates iff it occurs at least 5 times in the
\* flattened skills of the filtered view.
C8_MinimumSupport ==
  Charted =>
    LET top == Take(skills_salary_avg, TopN)
        ex  == Explode(filtered_df)
    IN  /\ Len(top) <= 10
        /\ \A k \in 1..(Len(top) - 1) : top[k].mean >= top[k + 1].mean
        /\ \A k \in 1..Len(top) : SkillOccurrences(top[k].Skills_List) >= 5
        /\ \A i \in 1..Len(ex) :
             SkillOccurrences(ex[i].Skills_List) >= 5
               => \E k \in 1..Len(skills_salary_avg) :
                    skills_salary_avg[k].Skills_List = ex[i].Skills_List

\* s contains term, compared case-insensitively
ContainsIgnoringCase(s, term) ==
  \E i \in 1..(Len(s) - Len(term) + 1) :
    \A j \in 1..Len(term) : lower(s[i + j - 1]) = lower(term[j])

\* C9: an empty term returns the view; otherwise the result is exactly the
\* rows of the view one of whose four search columns contains the term as a
\* literal substring, case-insensitively; a null cell never matches.
C9_LiteralSubstringSearch ==
  pc = "done" =>
    IF search_term = <<>> THEN search_results = filtered_df
    ELSE search_results =
           Select(filtered_df,
                  [i \in 1..Len(filtered_df) |->
                     \E c \in 1..4 :
                       /\ SearchCells(filtered_df[i])[c].kind = "str"
                       /\ ContainsIgnoringCase(
                            SearchCells(filtered_df[i])[c].text, search_term)])

\* C10 as stated: on the first run every selected set is all the distinct
\* values of its column, the dates are the least and greatest posted date,
\* and the filtered view is the whole table.
C10_DefaultSelectsAll ==
  (first_run /\ Filtered) =>
    /\ selected_locations = unique(df, "Job_Location")
    /\ selected_sizes = unique(df, "Company_Size")
    /\ selected_types = unique(df, "Job_Type")
    /\ date_range = <<Min(unique(df, "Posted_Date")), Max(unique(df, "Posted_Date"))>>
    /\ filtered_df = df

\* the locations with fewer than five distinct locations before them
FirstFiveLocations ==
  {l \in unique(df, "Job_Location") :
     Cardinality({m \in unique(df, "Job_Location") : StrLess(m, l)}) < 5}

\* C10 amended: on the first run the company sizes and job types are all the
\* distinct values and the dates are the least and greatest posted date, but
\* the locations are the first five distinct locations in sorted order; the
\* filtered view is the rows in those locations, the whole table when there
\* are at most five.
C10_DefaultFirstFiveLocations ==
  (first_run /\ Filtered) =>
    /\ selected_locations = FirstFiveLocations
    /\ selected_sizes = unique(df, "Company_Size")
    /\ selected_types = unique(df, "Job_Type")
    /\ date_range = <<Min(unique(df, "Posted_Date")), Max(unique(df, "Posted_Date"))>>
    /\ Len(filtered_df) =
         Cardinality({i \in 1..Len(df) : df[i].Job_Location \in FirstFiveLocations})
    /\ \A k \in 1..Len(filtered_df) :
         /\ filtered_df[k] = df[filtered_df[k].index + 1]
         /\ filtered_df[k].Job_Location \in FirstFiveLocations
    /\ \A k \in 1..(Len(filtered_df) - 1) :
         filtered_df[k].index < filtered_df[k + 1].index
    /\ (Cardinality(unique(df, "Job_Location")) <= 5 => filtered_df = df)

\* six cities: the sixth in sorted order is left out of the first view
C10_Witness ==
  /\ first_run
  /\ Filtered
  /\ Cardinality(unique(df, "Job_Location")) = 6
  /\ Vizag \notin selected_locations
  /\ Len(filtered_df) = 5

=============================================================================
